---- MODULE Spec2Model ----
(***************************************************************************)
(* php8.3/include/php/main/build-defs.h: the generated header recording    *)
(* the build configuration of a PHP 8.3 installation.  The header is a     *)
(* program of the C preprocessor: a block comment, a blank line and 23     *)
(* object-like #define directives whose replacement is one string literal. *)
(* The model translates the header character by character, as the          *)
(* preprocessor does when a translation unit includes it, into the macro   *)
(* table; the code that includes the header then uses the macros, each use *)
(* being replaced by the macro's replacement list.                         *)
(***************************************************************************)
EXTENDS Naturals, Sequences, FiniteSets, TLC

(* The text of the header, one string per line (the last line has no       *)
(* newline after it).  \" is a double quote and \t a tab of the file.      *)
HeaderText ==
  <<
    "/*",
    "   +----------------------------------------------------------------------+",
    "   | Copyright (c) The PHP Group                                          |",
    "   +----------------------------------------------------------------------+",
    "   | This source file is subject to version 3.01 of the PHP license,      |",
    "   | that is bundled with this package in the file LICENSE, and is        |",
    "   | available through the world-wide-web at the following url:           |",
    "   | https://www.php.net/license/3_01.txt                                 |",
    "   | If you did not receive a copy of the PHP license and are unable to   |",
    "   | obtain it through the world-wide-web, please send a note to          |",
    "   | license@php.net so we can mail you a copy immediately.               |",
    "   +----------------------------------------------------------------------+",
    "   | Author: Stig Sæther Bakken <ssb@php.net>                             |",
    "   +----------------------------------------------------------------------+",
    "*/",
    "",
    "#define CONFIGURE_COMMAND \" './configure'  '--prefix=/home/rui/HNP_PHP/php8.3' '--enable-cli' '--disable-all' '--enable-json' '--enable-phar' '--enable-simplexml' '--enable-dom' '--with-libxml' '--enable-tokenizer' '--enable-filter' '--enable-mbstring' '--with-openssl' '--with-curl' '--enable-session' '--enable-fileinfo' '--enable-xml' '--enable-ftp' '--with-gmp' '--with-iconv' '--enable-xmlwriter' '--enable-intl' '--enable-ctype'\"",
    "#define PHP_ODBC_CFLAGS\t\"\"",
    "#define PHP_ODBC_LFLAGS\t\t\"\"",
    "#define PHP_ODBC_LIBS\t\t\"\"",
    "#define PHP_ODBC_TYPE\t\t\"\"",
    "#define PHP_OCI8_DIR\t\t\t\"\"",
    "#define PHP_OCI8_ORACLE_VERSION\t\t\"\"",
    "#define PHP_PROG_SENDMAIL\t\"/usr/sbin/sendmail\"",
    "#define PEAR_INSTALLDIR         \"\"",
    "#define PHP_INCLUDE_PATH\t\".:\"",
    "#define PHP_EXTENSION_DIR       \"/home/rui/HNP_PHP/php8.3/lib/php/extensions/no-debug-non-zts-20230831\"",
    "#define PHP_PREFIX              \"/home/rui/HNP_PHP/php8.3\"",
    "#define PHP_BINDIR              \"/home/rui/HNP_PHP/php8.3/bin\"",
    "#define PHP_SBINDIR             \"/home/rui/HNP_PHP/php8.3/sbin\"",
    "#define PHP_MANDIR              \"/home/rui/HNP_PHP/php8.3/php/man\"",
    "#define PHP_LIBDIR              \"/home/rui/HNP_PHP/php8.3/lib/php\"",
    "#define PHP_DATADIR             \"/home/rui/HNP_PHP/php8.3/share/php\"",
    "#define PHP_SYSCONFDIR          \"/home/rui/HNP_PHP/php8.3/etc\"",
    "#define PHP_LOCALSTATEDIR       \"/home/rui/HNP_PHP/php8.3/var\"",
    "#define PHP_CONFIG_FILE_PATH    \"/home/rui/HNP_PHP/php8.3/lib\"",
    "#define PHP_CONFIG_FILE_SCAN_DIR    \"\"",
    "#define PHP_SHLIB_SUFFIX        \"so\"",
    "#define PHP_SHLIB_EXT_PREFIX    \"\""
  >>

NLines == Len(HeaderText)

(* The header with its last directive written as a copy of the one before  *)
(* it: PHP_SHLIB_SUFFIX is defined twice, PHP_SHLIB_EXT_PREFIX never.      *)
LineRepeated(i) == HeaderText[IF i = 39 THEN 38 ELSE i]

(* The header of a build whose binaries are installed outside the prefix.  *)
LineBinMoved(i) ==
  IF i = 28 THEN "#define PHP_BINDIR              \"/usr/local/bin\""
            ELSE HeaderText[i]

(* Line i of the file being translated. *)
Line(i) == HeaderText[i]

(* The character at column c of the text s ("" past its end). *)
CharAt(s, c) == IF c >= 1 /\ c <= Len(s) THEN SubSeq(s, c, c) ELSE ""

(* Does the text s hold the text t at column c? *)
StartsAt(s, c, t) ==
  /\ c >= 1
  /\ c + Len(t) - 1 <= Len(s)
  /\ SubSeq(s, c, c + Len(t) - 1) = t

IdentAlphabet ==
  "ABCDEFGHIJKLMNOPQRSTUVWXYZabcdefghijklmnopqrstuvwxyz0123456789_"

IdentChars == { SubSeq(IdentAlphabet, i, i) : i \in 1..Len(IdentAlphabet) }

Blanks == { " ", "\t" }

NoMacros == [k \in {} |-> ""]

VARIABLES
  line,     \* the line being translated, NLines + 1 at the end of the file
  col,      \* the column of the next character of that line
  mode,     \* where the translation is: "code", "comment", "pre_name",
            \* "name", "pre_body", "string" or "post_body"
  name,     \* the macro name of the directive being read
  value,    \* the characters of the string literal being read
  macros,   \* the macro table: name |-> contents of its string literal
  ndefs,    \* name |-> number of #define directives translated for it
  out       \* the last use of an identifier: [id, replaced, text]

vars == <<line, col, mode, name, value, macros, ndefs, out>>

NoUse == [id |-> "", replaced |-> FALSE, text |-> ""]

Init ==
  /\ line = 1
  /\ col = 1
  /\ mode = "code"
  /\ name = ""
  /\ value = ""
  /\ macros = NoMacros
  /\ ndefs = NoMacros
  /\ out = NoUse

InFile == line <= NLines

AtEnd == col > Len(Line(line))

Cur == CharAt(Line(line), col)

(* "/*" opens a comment. *)
OpenComment ==
  /\ InFile /\ mode = "code"
  /\ StartsAt(Line(line), col, "/*")
  /\ mode' = "comment"
  /\ col' = col + 2
  /\ UNCHANGED <<line, name, value, macros, ndefs, out>>

(* A character of a comment other than its end is skipped. *)
CommentChar ==
  /\ InFile /\ mode = "comment" /\ ~AtEnd
  /\ ~StartsAt(Line(line), col, "*/")
  /\ col' = col + 1
  /\ UNCHANGED <<line, mode, name, value, macros, ndefs, out>>

(* "*/" closes the comment. *)
CloseComment ==
  /\ InFile /\ mode = "comment"
  /\ StartsAt(Line(line), col, "*/")
  /\ mode' = "code"
  /\ col' = col + 2
  /\ UNCHANGED <<line, name, value, macros, ndefs, out>>

(* The end of a line that holds no directive: a comment goes on over it,   *)
(* an empty line is skipped.                                               *)
EndLine ==
  /\ InFile /\ AtEnd
  /\ mode \in {"code", "comment"}
  /\ line' = line + 1
  /\ col' = 1
  /\ UNCHANGED <<mode, name, value, macros, ndefs, out>>

(* "#define" at the start of a line opens a directive. *)
Directive ==
  /\ InFile /\ mode = "code" /\ col = 1
  /\ StartsAt(Line(line), 1, "#define")
  /\ CharAt(Line(line), 8) \in Blanks
  /\ mode' = "pre_name"
  /\ col' = 8
  /\ name' = ""
  /\ value' = ""
  /\ UNCHANGED <<line, macros, ndefs, out>>

(* White space before the macro name and before the replacement list.      *)
SkipBlank ==
  /\ InFile /\ mode \in {"pre_name", "pre_body"}
  /\ Cur \in Blanks
  /\ col' = col + 1
  /\ UNCHANGED <<line, mode, name, value, macros, ndefs, out>>

(* A character of the macro name. *)
NameChar ==
  /\ InFile /\ mode \in {"pre_name", "name"}
  /\ Cur \in IdentChars
  /\ name' = name \o Cur
  /\ mode' = "name"
  /\ col' = col + 1
  /\ UNCHANGED <<line, value, macros, ndefs, out>>

(* White space ends the macro name. *)
EndName ==
  /\ InFile /\ mode = "name"
  /\ Cur \in Blanks
  /\ mode' = "pre_body"
  /\ UNCHANGED <<line, col, name, value, macros, ndefs, out>>

(* The double quote that opens the string literal. *)
OpenString ==
  /\ InFile /\ mode = "pre_body"
  /\ Cur = "\""
  /\ mode' = "string"
  /\ value' = ""
  /\ col' = col + 1
  /\ UNCHANGED <<line, name, macros, ndefs, out>>

(* A character of the string literal (the header has no escape sequence).  *)
StringChar ==
  /\ InFile /\ mode = "string" /\ ~AtEnd
  /\ Cur \notin {"\"", "\\"}
  /\ value' = value \o Cur
  /\ col' = col + 1
  /\ UNCHANGED <<line, mode, name, macros, ndefs, out>>

(* The double quote that closes the string literal. *)
CloseString ==
  /\ InFile /\ mode = "string"
  /\ Cur = "\""
  /\ mode' = "post_body"
  /\ col' = col + 1
  /\ UNCHANGED <<line, name, value, macros, ndefs, out>>

Count(k) == IF k \in DOMAIN ndefs THEN ndefs[k] ELSE 0

(* The end of the line ends the directive: the macro is entered into the   *)
(* table, a definition of the same name translated earlier being replaced. *)
Define ==
  /\ InFile /\ mode = "post_body" /\ AtEnd
  /\ macros' = [k \in DOMAIN macros \cup {name} |->
                  IF k = name THEN value ELSE macros[k]]
  /\ ndefs' = [k \in DOMAIN ndefs \cup {name} |->
                  IF k = name THEN Count(k) + 1 ELSE ndefs[k]]
  /\ mode' = "code"
  /\ line' = line + 1
  /\ col' = 1
  /\ UNCHANGED <<name, value, out>>

Translated == line = NLines + 1 /\ mode = "code"

(* The identifiers the including code uses: the macros the installation    *)
(* schema declares and some the header does not define.                    *)
Schema ==
  { "CONFIGURE_COMMAND", "PHP_ODBC_CFLAGS", "PHP_ODBC_LFLAGS", "PHP_ODBC_LIBS",
    "PHP_ODBC_TYPE", "PHP_OCI8_DIR", "PHP_OCI8_ORACLE_VERSION",
    "PHP_PROG_SENDMAIL", "PEAR_INSTALLDIR", "PHP_INCLUDE_PATH",
    "PHP_EXTENSION_DIR", "PHP_PREFIX", "PHP_BINDIR", "PHP_SBINDIR",
    "PHP_MANDIR", "PHP_LIBDIR", "PHP_DATADIR", "PHP_SYSCONFDIR",
    "PHP_LOCALSTATEDIR", "PHP_CONFIG_FILE_PATH", "PHP_CONFIG_FILE_SCAN_DIR",
    "PHP_SHLIB_SUFFIX", "PHP_SHLIB_EXT_PREFIX" }

Undefined == { "PHP_ODBC_DIR", "PHP_SHLIB_PREFIX", "define" }

(* A replacement that takes a macro defined as "" for an undefined one.    *)
ExpandEmptyAsUndefined(id) ==
  /\ Translated
  /\ out' = IF id \in DOMAIN macros /\ macros[id] # ""
              THEN [id |-> id, replaced |-> TRUE, text |-> macros[id]]
              ELSE [id |-> id, replaced |-> FALSE, text |-> id]
  /\ UNCHANGED <<line, col, mode, name, value, macros, ndefs>>

(* A use of the identifier id after the header: a defined macro is         *)
(* replaced by its replacement list, also when that is the empty string    *)
(* literal; any other identifier is left as it is.                         *)
Expand(id) ==
  /\ Translated
  /\ out' = IF id \in DOMAIN macros
              THEN [id |-> id, replaced |-> TRUE, text |-> macros[id]]
              ELSE [id |-> id, replaced |-> FALSE, text |-> id]
  /\ UNCHANGED <<line, col, mode, name, value, macros, ndefs>>

Next ==
  \/ OpenComment
  \/ CommentChar
  \/ CloseComment
  \/ EndLine
  \/ Directive
  \/ SkipBlank
  \/ NameChar
  \/ EndName
  \/ OpenString
  \/ StringChar
  \/ CloseString
  \/ Define
  \/ \E id \in Schema \cup Undefined : Expand(id)

Spec == Init /\ [][Next]_vars

(***************************************************************************)
(* Properties                                                              *)
(***************************************************************************)

\* C2: every key of the schema is defined exactly once by the header: while
\* the header is translated no macro name is ever defined a second time, and
\* when it has been translated the names defined are exactly the 23 names of
\* the schema, each by one directive.
SchemaKeysDefinedOnce ==
  /\ \A k \in DOMAIN ndefs : ndefs[k] = 1
  /\ Translated =>
       /\ DOMAIN ndefs = Schema
       /\ \A k \in Schema : Count(k) = 1

HeaderTranslated ==
  /\ Translated
  /\ Cardinality(DOMAIN ndefs) = 23
  /\ Count("PHP_SHLIB_EXT_PREFIX") = 1

(* What the text of the header gives the key k: the characters between the *)
(* first double quote and the last character of the directive that names k.*)
DirectiveOf(k) ==
  CHOOSE i \in 1..Len(HeaderText) :
    /\ StartsAt(HeaderText[i], 1, "#define " \o k)
    /\ CharAt(HeaderText[i], 9 + Len(k)) \in Blanks

FirstQuote(s) ==
  CHOOSE q \in 1..Len(s) :
    /\ CharAt(s, q) = "\""
    /\ \A r \in 1..(q - 1) : CharAt(s, r) # "\""

SourceValue(k) ==
  LET s == HeaderText[DirectiveOf(k)]
  IN  SubSeq(s, FirstQuote(s) + 1, Len(s) - 1)

\* C5: once the header is translated every key of the schema is a defined
\* macro, and every use of a key of the schema is replaced by the string the
\* header gives for that key; the use never fails (is never left unreplaced),
\* also when the string is empty.
GetDeclaredKeyReturnsSourceValue ==
  /\ Translated => \A k \in Schema : k \in DOMAIN macros
  /\ out.id \in Schema =>
       /\ out.replaced
       /\ out.text = SourceValue(out.id)

GotEmptyDeclaredKey ==
  /\ out.id = "PHP_ODBC_CFLAGS"
  /\ out.replaced
  /\ out.text = ""

(* The directory dir lies under root: root, "/" and a non-empty rest.      *)
Under(dir, root) ==
  /\ Len(dir) > Len(root) + 1
  /\ SubSeq(dir, 1, Len(root) + 1) = root \o "/"

PrefixDirs ==
  { "PHP_BINDIR", "PHP_SBINDIR", "PHP_MANDIR", "PHP_LIBDIR", "PHP_DATADIR",
    "PHP_SYSCONFDIR", "PHP_LOCALSTATEDIR", "PHP_CONFIG_FILE_PATH",
    "PHP_EXTENSION_DIR" }

HasPrefixArg(cmd) == \E p \in 1..Len(cmd) : StartsAt(cmd, p, "'--prefix=")

(* The value of the first '--prefix=...' argument of a configure command.  *)
PrefixArg(cmd) ==
  LET p == CHOOSE p \in 1..Len(cmd) :
             /\ StartsAt(cmd, p, "'--prefix=")
             /\ \A r \in 1..(p - 1) : ~StartsAt(cmd, r, "'--prefix=")
      q == CHOOSE q \in (p + 10)..Len(cmd) :
             /\ CharAt(cmd, q) = "'"
             /\ \A r \in (p + 10)..(q - 1) : CharAt(cmd, r) # "'"
  IN  SubSeq(cmd, p + 10, q - 1)

\* C10: in the translated header each of the nine directory macros is the
\* value of PHP_PREFIX followed by "/" and a non-empty suffix,
\* PHP_EXTENSION_DIR begins with the value of PHP_LIBDIR followed by "/", and
\* the '--prefix=' argument in CONFIGURE_COMMAND equals PHP_PREFIX.
DirectoriesUnderPrefix ==
  Translated =>
    /\ PrefixDirs \cup {"PHP_PREFIX", "CONFIGURE_COMMAND"} \subseteq DOMAIN macros
    /\ \A k \in PrefixDirs : Under(macros[k], macros["PHP_PREFIX"])
    /\ Under(macros["PHP_EXTENSION_DIR"], macros["PHP_LIBDIR"])
    /\ HasPrefixArg(macros["CONFIGURE_COMMAND"])
    /\ PrefixArg(macros["CONFIGURE_COMMAND"]) = macros["PHP_PREFIX"]

DirectoriesTranslated ==
  /\ Translated
  /\ "PHP_BINDIR" \in DOMAIN macros
  /\ "PHP_PREFIX" \in DOMAIN macros
  /\ macros["PHP_BINDIR"] = macros["PHP_PREFIX"] \o "/bin"
  /\ macros["PHP_PREFIX"] = "/home/rui/HNP_PHP/php8.3"

====
